---- MODULE Spec2Model ----
(***************************************************************************)
(* StockAnalyzer (src/util/stock_analyzer.py): classify a weibo post with  *)
(* a remote language model, push related posts to a WeCom webhook, and     *)
(* remember the identifiers that were pushed.                              *)
(*                                                                         *)
(* Every method is cut at its network calls: one action per stretch of     *)
(* code between two blocking requests.  Each calling thread t has its own  *)
(* argument mapping weibo_data[t], its own locals and its own position     *)
(* pc[t]; the configuration and pushed_weibo_ids are shared.               *)
(***************************************************************************)
EXTENDS Integers, Sequences, FiniteSets, TLC

\* ------------------------------------------------------------------ bounds
\* largest configured max_retries explored (the configuration is any int)
MaxRetries == 2
\* longest classifier reply explored by the reply-parsing specification
MaxReplyLen == 4

\* ------------------------------------------------------- python primitives
\* A python str is the sequence of its characters, each a one-character
\* string; a character outside ASCII is written as its code point, "U+4E0D".
\* The two values below are one-element sequences that spell no character,
\* so they are equal to no str.
\* a key that is not in a mapping
Absent == <<"<absent>">>
\* the value None
PyNone == <<"<None>">>

\* dict.get(key, default)
Get(d, key, default) == IF d[key] = Absent THEN default ELSE d[key]

\* truth value of a str-or-None value: None and '' are false
Truthy(v) == v \notin {Absent, PyNone, <<>>}

\* characters str.strip() removes
Whitespace == {" ", "\n"}

RECURSIVE LStrip(_)
\* str.lstrip()
LStrip(s) ==
  IF s # <<>> /\ Head(s) \in Whitespace THEN LStrip(Tail(s)) ELSE s

RECURSIVE RStrip(_)
\* str.rstrip()
RStrip(s) ==
  IF s # <<>> /\ s[Len(s)] \in Whitespace
  THEN RStrip(SubSeq(s, 1, Len(s) - 1)) ELSE s

\* str.strip()
Strip(s) == RStrip(LStrip(s))

\* s.startswith(p)
StartsWith(s, p) == Len(p) <= Len(s) /\ SubSeq(s, 1, Len(p)) = p

RECURSIVE Contains(_, _)
\* the python expression  p in s  on strings: scan s from the left
Contains(s, p) ==
  IF Len(s) < Len(p) THEN FALSE
  ELSE IF StartsWith(s, p) THEN TRUE
  ELSE Contains(Tail(s), p)

\* ------------------------------------------------------------- exceptions
\* the classes the requests and the json decoding can raise, with their
\* direct base class
BaseOf ==
  [ ConnectionError  |-> "RequestException",
    Timeout          |-> "RequestException",
    RequestException |-> "Exception",
    JSONDecodeError  |-> "ValueError",
    ValueError       |-> "Exception",
    KeyError         |-> "Exception",
    AttributeError   |-> "Exception",
    Exception        |-> "BaseException",
    BaseException    |-> "BaseException" ]

RECURSIVE IsSubclass(_, _)
\* issubclass(e, cls)
IsSubclass(e, cls) ==
  IF e = cls THEN TRUE
  ELSE IF e = "BaseException" THEN FALSE
  ELSE IsSubclass(BaseOf[e], cls)

\* except RequestException: the handler a narrower clause would be
ExceptRequestException(e) == IsSubclass(e, "RequestException")

\* except Exception as e
ExceptException(e) == IsSubclass(e, "Exception")

\* ------------------------------------------------------------ input values
\* the identifiers of two posts
PostIds == {<<"7">>, <<"8">>}
\* the id field the upstream crawler supplies: missing, empty, a post's
IdValues == {Absent, <<>>} \cup PostIds
\* post bodies: missing, empty, a one-character body
TextValues == {Absent, <<>>, <<"t">>}
\* author identifiers: missing or present
UserValues == {Absent, <<"u">>}

\* 'Thu Dec 18 08:33:17 +0800 2025'
WeiboTime ==
  << "T","h","u"," ","D","e","c"," ","1","8"," ","0","8",":","3","3",":",
     "1","7"," ","+","0","8","0","0"," ","2","0","2","5" >>
\* '2025-12-18 08:33:17'
WeiboTimeBeijing ==
  << "2","0","2","5","-","1","2","-","1","8"," ","0","8",":","3","3",":",
     "1","7" >>
\* '2025-12-16 10:00:00'
StandardTime ==
  << "2","0","2","5","-","1","2","-","1","6"," ","1","0",":","0","0",":",
     "0","0" >>
\* '2025-12-16T10:00:00Z'
IsoTime ==
  << "2","0","2","5","-","1","2","-","1","6","T","1","0",":","0","0",":",
     "0","0","Z" >>
\* '2025-12-16 18:00:00'
IsoTimeBeijing ==
  << "2","0","2","5","-","1","2","-","1","6"," ","1","8",":","0","0",":",
     "0","0" >>
\* creation timestamps: missing, weibo format, bare format, ISO format
CreatedValues == {Absent, WeiboTime, StandardTime, IsoTime}

\* the records analyze_and_push is given: no stock_analysis key yet
PostInputs ==
  [ id : IdValues, text : TextValues, user_id : UserValues,
    created_at : CreatedValues, stock_analysis : {<<>>} ]

\* values of the configuration keys zhipu_api_key and webhook_url
KeyValues == {PyNone, <<"k">>}
UrlValues == {PyNone, <<"w">>}

\* -------------------------------------------------------------- timestamps
RECURSIVE Count(_, _)
\* s.count(c) for a one-character c
Count(s, c) ==
  IF s = <<>> THEN 0
  ELSE (IF Head(s) = c THEN 1 ELSE 0) + Count(Tail(s), c)

\* the parsing branch the if/elif/else picks for a timestamp
TimeBranch(created_at) ==
  IF Contains(created_at, <<"T">>) THEN "iso"
  ELSE IF Contains(created_at, <<"+">>) \/ Count(created_at, " ") >= 4
       THEN "weibo"
       ELSE "standard"

\* What datetime.fromisoformat / datetime.strptime followed by the
\* conversion to Asia/Shanghai and strftime give for the timestamps above:
\* the rendered Beijing time of each (parser, input) pair that parses.
\* Every other pair raises ValueError.
ParseTable ==
  ( <<"weibo", WeiboTime>> :> WeiboTimeBeijing ) @@
  ( <<"standard", StandardTime>> :> StandardTime ) @@
  ( <<"iso", IsoTime>> :> IsoTimeBeijing )

\* the try body that parses and renders created_at
ConvertTime(created_at) ==
  LET key == <<TimeBranch(created_at), created_at>> IN
  IF key \in DOMAIN ParseTable
  THEN [exc |-> "none", out |-> ParseTable[key]]
  ELSE [exc |-> "ValueError", out |-> <<>>]

\* beijing_time_str after the timestamp block; exc is what escapes it
BeijingTimeStr(created_at) ==
  IF ~Truthy(created_at) THEN [exc |-> "none", out |-> <<>>]
  ELSE LET r == ConvertTime(created_at) IN
       IF r.exc = "none" THEN r
       ELSE IF ExceptException(r.exc)
            THEN [exc |-> "none", out |-> created_at]
            ELSE r

\* the two Chinese labels of the message are one token each
\* the label in front of the time ('posted at: ')
TimeLabel == <<"<posted-at>", ":", " ">>
\* the label in front of the link ('link: ')
LinkLabel == <<"<link>", ":", " ">>
UrlPrefix == <<"https://weibo.com/">>

\* how an f-string renders a value
Format(v) == IF v = PyNone THEN <<"None">> ELSE v

\* a message whose time line is followed by a blank line
BuildMessageBlankLines(d, beijing_time_str) ==
  LET txt      == Get(d, "text", <<>>)
      wid      == Get(d, "id", <<>>)
      uid      == Get(d, "user_id", <<>>)
      weibo_url == IF Truthy(uid) /\ Truthy(wid)
                   THEN UrlPrefix \o uid \o <<"/">> \o wid ELSE <<>>
  IN  (IF Truthy(beijing_time_str)
       THEN TimeLabel \o beijing_time_str \o <<"\n", "\n">> ELSE <<>>)
      \o Format(txt)
      \o (IF Truthy(weibo_url) THEN <<"\n", "\n">> \o LinkLabel \o weibo_url
          ELSE <<>>)

\* message, from the fields of the post and beijing_time_str
BuildMessage(d, beijing_time_str) ==
  LET txt      == Get(d, "text", <<>>)
      wid      == Get(d, "id", <<>>)
      uid      == Get(d, "user_id", <<>>)
      weibo_url == IF Truthy(uid) /\ Truthy(wid)
                   THEN UrlPrefix \o uid \o <<"/">> \o wid ELSE <<>>
  IN  (IF Truthy(beijing_time_str) THEN TimeLabel \o beijing_time_str
       ELSE <<>>)
      \o <<"\n">> \o Format(txt)
      \o (IF Truthy(weibo_url) THEN <<"\n", "\n">> \o LinkLabel \o weibo_url
          ELSE <<>>)

\* ------------------------------------------------------------- classifier
\* the marker the model is asked to answer for unrelated posts
NotRelated == <<"U+4E0D", "U+76F8", "U+5173">>

\* characters of the replies explored: the marker's, a blank, another one
ReplyAlphabet == {"U+4E0D", "U+76F8", "U+5173", " ", "x"}

\* all replies of at most n characters
RepliesUpTo(n) ==
  UNION { [1..k -> ReplyAlphabet] : k \in 0..n }

\* the replies the classification endpoint gives while posts are processed
ApiReplies == { NotRelated, <<" ", "x", "\n">>, <<>> }

\* what requests.post does: raise exc, or return a response with a status
\* and a body.  body: "json" has choices[0].message.content = content,
\* "not_json" makes response.json() raise, "no_choices" lacks the key,
\* "null_content" has content null.
Response(exc, status, body, content) ==
  [exc |-> exc, status |-> status, body |-> body, content |-> content]

\* the outcomes of one classification request, with replies from `replies`
ClassifierResponses(replies) ==
  { Response(e, 0, "none", <<>>) : e \in {"ConnectionError", "Timeout"} }
  \cup { Response("none", 500, "text", <<>>) }
  \cup { Response("none", 200, b, <<>>) :
            b \in {"not_json", "no_choices", "null_content"} }
  \cup { Response("none", 200, "json", r) : r \in replies }

\* result['choices'][0]['message']['content'] with response.json()
ReplyContent(resp) ==
  CASE resp.body = "not_json"     -> [exc |-> "JSONDecodeError", content |-> <<>>]
    [] resp.body = "no_choices"   -> [exc |-> "KeyError", content |-> <<>>]
    [] resp.body = "null_content" -> [exc |-> "AttributeError", content |-> <<>>]
    [] OTHER                      -> [exc |-> "none", content |-> resp.content]

\* a mistaken decision rule: equality with the marker
ParseReplyByEquality(content) ==
  LET analysis == Strip(content) IN
  [is_related |-> analysis # NotRelated, analysis |-> analysis]

\* analysis and is_related from the reply text
ParseReply(content) ==
  LET analysis == Strip(content) IN
  [is_related |-> ~Contains(analysis, NotRelated), analysis |-> analysis]

\* the try body of one attempt: exc escapes it; otherwise kind is "return"
\* (with the tuple to return) or "failed" (the non-200 branch)
TryClassify(resp) ==
  LET none == [exc |-> "none", kind |-> "failed",
               is_related |-> FALSE, analysis |-> <<>>] IN
  IF resp.exc # "none" THEN [none EXCEPT !.exc = resp.exc]
  ELSE IF resp.status = 200
       THEN LET c == ReplyContent(resp) IN
            IF c.exc # "none" THEN [none EXCEPT !.exc = c.exc]
            ELSE LET v == ParseReply(c.content) IN
                 [exc |-> "none", kind |-> "return",
                  is_related |-> v.is_related, analysis |-> v.analysis]
       ELSE none

\* a retry test that gives up one attempt early
RetryAgainOneShort(attempt, retries) == attempt < retries - 2

\* attempt < self.max_retries - 1: another attempt follows a failure
RetryAgain(attempt, retries) == attempt < retries - 1

\* a loop that runs once more than range(retries)
InRangeInclusive(attempt, retries) == attempt <= retries

\* range(self.max_retries) has an element at position attempt
InRange(attempt, retries) == attempt < retries

\* ---------------------------------------------------------------- webhook
\* what the webhook answers: body "dict" is a JSON object with errcode,
\* "no_errcode" an object without it, "list" a JSON array, "not_json"
\* makes response.json() raise
HookResponse(exc, status, body, errcode) ==
  [exc |-> exc, status |-> status, body |-> body, errcode |-> errcode]

\* the outcomes of one webhook request
WebhookResponses ==
  { HookResponse(e, 0, "none", 0) : e \in {"ConnectionError", "Timeout"} }
  \cup { HookResponse("none", 500, "text", 0) }
  \cup { HookResponse("none", 200, b, 0) :
            b \in {"not_json", "list", "no_errcode"} }
  \cup { HookResponse("none", 200, "dict", c) : c \in {0, 93000} }

\* the webhook accepted the message: HTTP 200 and errcode 0 in the body
Acknowledged(resp) ==
  resp.exc = "none" /\ resp.status = 200 /\ resp.body = "dict"
  /\ resp.errcode = 0

\* a check of the status alone
PushResultByStatus(resp) ==
  IF resp.exc # "none" THEN [exc |-> resp.exc, value |-> FALSE]
  ELSE [exc |-> "none", value |-> resp.status = 200]

\* the value the try body returns for a response, or the exception
PushResult(resp) ==
  IF resp.exc # "none" THEN [exc |-> resp.exc, value |-> FALSE]
  ELSE IF resp.status = 200
       THEN CASE resp.body = "not_json" ->
                   [exc |-> "JSONDecodeError", value |-> FALSE]
              [] resp.body = "list" ->
                   [exc |-> "AttributeError", value |-> FALSE]
              [] resp.body = "no_errcode" ->
                   [exc |-> "none", value |-> FALSE]
              [] OTHER ->
                   [exc |-> "none", value |-> resp.errcode = 0]
       ELSE [exc |-> "none", value |-> FALSE]

\* ------------------------------------------------------------------ state
\* the caller's thread, and the threads of a concurrent caller
MainThread == "main"
Threads == {"main", "other"}

\* largest number of acknowledged deliveries counted per identifier
MaxAcks == 2

VARIABLES
  enabled,           \* self.enabled
  api_key,           \* self.api_key
  webhook_url,       \* self.webhook_url
  max_retries,       \* self.max_retries
  pushed_weibo_ids,  \* self.pushed_weibo_ids
  weibo_data,        \* per thread: the mapping the call was given
  pc,                \* per thread: position in the code
  entry,             \* per thread: the method the caller invoked
  text,              \* per thread: local text
  weibo_id,          \* per thread: local weibo_id
  attempt,           \* per thread: loop variable of is_stock_related
  is_related,        \* per thread: first component of the classifier result
  analysis,          \* per thread: second component of the classifier result
  message,           \* per thread: the message of the webhook request
  success,           \* per thread: result of push_to_weixin
  cls_requests,      \* per thread: classification requests of this call
  hook_requests,     \* per thread: webhook requests of this call
  acked,             \* per post identifier: deliveries the webhook acknowledged
  path,              \* per thread: the branch analyze_and_push took
  pre_analysis,      \* per thread: stock_analysis when the call began
  pre_pushed,        \* per thread: pushed_weibo_ids when the call began
  reply,             \* per thread: last reply text parsed by the classifier
  cls_ok,            \* per thread: a reply was parsed in this call
  hook_acked,        \* per thread: the webhook acknowledged this call's request
  returned,          \* per thread: the value the last return statement gave
  push_calls         \* per thread: push_to_weixin invocations of this call

cfg == <<enabled, api_key, webhook_url, max_retries>>
locals == <<text, weibo_id, attempt, is_related, analysis, message, success>>
ghosts == <<cls_requests, hook_requests, acked, path, pre_analysis,
            pre_pushed, reply, cls_ok, hook_acked, returned, push_calls>>
vars == <<cfg, pushed_weibo_ids, weibo_data, pc, entry, locals, ghosts>>

\* a mapping with none of the keys
EmptyPost ==
  [id |-> Absent, text |-> Absent, user_id |-> Absent,
   created_at |-> Absent, stock_analysis |-> <<>>]

\* '(已推送，跳过重复分析)'
SentinelText ==
  << "(", "U+5DF2", "U+63A8", "U+9001", "U+FF0C", "U+8DF3", "U+8FC7",
     "U+91CD", "U+590D", "U+5206", "U+6790", ")" >>

\* the result attached to a post that was pushed before
Sentinel == [is_stock_related |-> TRUE, analysis |-> SentinelText]

\* the values max_retries is configured with
RetryValues == (-1)..MaxRetries

\* StockAnalyzer.__init__ with any configuration
Init ==
  /\ enabled \in BOOLEAN
  /\ api_key \in KeyValues
  /\ webhook_url \in UrlValues
  /\ max_retries \in RetryValues
  /\ pushed_weibo_ids = {}
  /\ weibo_data = [t \in Threads |-> EmptyPost]
  /\ pc = [t \in Threads |-> "idle"]
  /\ entry = [t \in Threads |-> "none"]
  /\ text = [t \in Threads |-> <<>>]
  /\ weibo_id = [t \in Threads |-> PyNone]
  /\ attempt = [t \in Threads |-> 0]
  /\ is_related = [t \in Threads |-> FALSE]
  /\ analysis = [t \in Threads |-> <<>>]
  /\ message = [t \in Threads |-> <<>>]
  /\ success = [t \in Threads |-> FALSE]
  /\ cls_requests = [t \in Threads |-> 0]
  /\ hook_requests = [t \in Threads |-> 0]
  /\ acked = [i \in PostIds |-> 0]
  /\ path = [t \in Threads |-> "none"]
  /\ pre_analysis = [t \in Threads |-> <<>>]
  /\ pre_pushed = [t \in Threads |-> {}]
  /\ reply = [t \in Threads |-> <<>>]
  /\ cls_ok = [t \in Threads |-> FALSE]
  /\ hook_acked = [t \in Threads |-> FALSE]
  /\ returned = [t \in Threads |-> "none"]
  /\ push_calls = [t \in Threads |-> 0]

\* the locals and the per-call counters of thread t start afresh
ResetFrame(t, method, txt, wid) ==
  /\ entry' = [entry EXCEPT ![t] = method]
  /\ text' = [text EXCEPT ![t] = txt]
  /\ weibo_id' = [weibo_id EXCEPT ![t] = wid]
  /\ attempt' = [attempt EXCEPT ![t] = 0]
  /\ is_related' = [is_related EXCEPT ![t] = FALSE]
  /\ analysis' = [analysis EXCEPT ![t] = <<>>]
  /\ message' = [message EXCEPT ![t] = <<>>]
  /\ success' = [success EXCEPT ![t] = FALSE]
  /\ cls_requests' = [cls_requests EXCEPT ![t] = 0]
  /\ hook_requests' = [hook_requests EXCEPT ![t] = 0]
  /\ reply' = [reply EXCEPT ![t] = <<>>]
  /\ pre_analysis' =
       [pre_analysis EXCEPT ![t] = weibo_data[t].stock_analysis]
  /\ pre_pushed' = [pre_pushed EXCEPT ![t] = pushed_weibo_ids]
  /\ cls_ok' = [cls_ok EXCEPT ![t] = FALSE]
  /\ hook_acked' = [hook_acked EXCEPT ![t] = FALSE]
  /\ push_calls' = [push_calls EXCEPT ![t] = 0]

\* the caller is between two calls
AtRest(t) == pc[t] \in {"idle", "done"}

\* the crawler hands thread t the next post, a fresh mapping out of inputs
FetchPostFrom(t, inputs) ==
  /\ AtRest(t)
  /\ \E d \in inputs : weibo_data' = [weibo_data EXCEPT ![t] = d]
  /\ pc' = [pc EXCEPT ![t] = "idle"]
  /\ path' = [path EXCEPT ![t] = "none"]
  /\ entry' = [entry EXCEPT ![t] = "none"]
  /\ text' = [text EXCEPT ![t] = <<>>]
  /\ weibo_id' = [weibo_id EXCEPT ![t] = PyNone]
  /\ attempt' = [attempt EXCEPT ![t] = 0]
  /\ is_related' = [is_related EXCEPT ![t] = FALSE]
  /\ analysis' = [analysis EXCEPT ![t] = <<>>]
  /\ message' = [message EXCEPT ![t] = <<>>]
  /\ success' = [success EXCEPT ![t] = FALSE]
  /\ cls_requests' = [cls_requests EXCEPT ![t] = 0]
  /\ hook_requests' = [hook_requests EXCEPT ![t] = 0]
  /\ reply' = [reply EXCEPT ![t] = <<>>]
  /\ pre_analysis' = [pre_analysis EXCEPT ![t] = <<>>]
  /\ pre_pushed' = [pre_pushed EXCEPT ![t] = {}]
  /\ cls_ok' = [cls_ok EXCEPT ![t] = FALSE]
  /\ hook_acked' = [hook_acked EXCEPT ![t] = FALSE]
  /\ returned' = [returned EXCEPT ![t] = "none"]
  /\ push_calls' = [push_calls EXCEPT ![t] = 0]
  /\ UNCHANGED <<cfg, pushed_weibo_ids, acked>>

\* the crawler hands thread t any post
FetchPost(t) == FetchPostFrom(t, PostInputs)

\* ------------------------------------------------------- analyze_and_push
\* a membership test that is skipped
InPushedNever(wid, pushed) == FALSE

\* weibo_id and weibo_id in self.pushed_weibo_ids
InPushed(wid, pushed) == Truthy(wid) /\ wid \in pushed

\* guards that test for a pushed identifier before anything else
BranchDuplicateFirst(d, pushed) ==
  IF InPushed(Get(d, "id", PyNone), pushed) THEN "duplicate"
  ELSE IF ~enabled THEN "disabled"
  ELSE IF ~Truthy(Get(d, "text", <<>>)) THEN "empty_text"
  ELSE "classify"

\* the branch the guards of analyze_and_push take
Branch(d, pushed) ==
  IF ~enabled THEN "disabled"
  ELSE IF ~Truthy(Get(d, "text", <<>>)) THEN "empty_text"
  ELSE IF InPushed(Get(d, "id", PyNone), pushed) THEN "duplicate"
  ELSE "classify"

\* a duplicate branch that overwrites the result
MarkDuplicateAlways(d) == [d EXCEPT !.stock_analysis = <<Sentinel>>]

\* the post after the duplicate branch
MarkDuplicate(d) ==
  IF d.stock_analysis = <<>>
  THEN [d EXCEPT !.stock_analysis = <<Sentinel>>] ELSE d

\* analyze_and_push, from the call to the call of is_stock_related or to
\* one of the three early returns
AnalyzeAndPush(t) ==
  /\ AtRest(t)
  /\ LET d == weibo_data[t]
         b == Branch(d, pushed_weibo_ids)
     IN
     /\ ResetFrame(t, "analyze_and_push",
                   IF b = "disabled" THEN <<>> ELSE Get(d, "text", <<>>),
                   IF b \in {"disabled", "empty_text"} THEN PyNone
                   ELSE Get(d, "id", PyNone))
     /\ path' = [path EXCEPT ![t] = b]
     /\ pc' = [pc EXCEPT ![t] =
                 IF b = "classify" THEN "is_stock_related" ELSE "done"]
     /\ returned' = [returned EXCEPT ![t] =
                 IF b = "classify" THEN "none" ELSE "weibo_data"]
     /\ weibo_data' = [weibo_data EXCEPT ![t] =
                 IF b = "duplicate" THEN MarkDuplicate(d) ELSE d]
  /\ UNCHANGED <<cfg, pushed_weibo_ids, acked>>

\* return is_related, analysis: to the caller of is_stock_related
ReturnClassify(t, rel, ana) ==
  /\ is_related' = [is_related EXCEPT ![t] = rel]
  /\ analysis' = [analysis EXCEPT ![t] = ana]
  /\ pc' = [pc EXCEPT ![t] =
              IF entry[t] = "is_stock_related" THEN "done" ELSE "attach"]
  /\ returned' = [returned EXCEPT ![t] =
              IF entry[t] = "is_stock_related" THEN "tuple" ELSE "none"]

\* a guard that forgets the enabled flag
ClassifierOffKeyOnly(en, key) == ~Truthy(key)

\* not self.enabled or not self.api_key
ClassifierOff(en, key) == ~en \/ ~Truthy(key)

\* is_stock_related, from its first line to the first request
IsStockRelated(t) ==
  /\ pc[t] = "is_stock_related"
  /\ IF ClassifierOff(enabled, api_key)
     THEN ReturnClassify(t, FALSE, <<>>)
     ELSE IF InRange(0, max_retries)
          THEN /\ pc' = [pc EXCEPT ![t] = "classify_request"]
               /\ UNCHANGED <<is_related, analysis, returned>>
          ELSE ReturnClassify(t, FALSE, <<>>)
  /\ attempt' = [attempt EXCEPT ![t] = 0]
  /\ UNCHANGED <<cfg, pushed_weibo_ids, weibo_data, entry, text, weibo_id,
                 message, success, cls_requests, hook_requests, acked, path,
                 pre_analysis, pre_pushed, reply, cls_ok, hook_acked,
                 push_calls>>

\* one attempt of the retry loop: the request, its response, and the
\* handling of the response up to the next request or the return
ClassifyRequest(t, replies) ==
  /\ pc[t] = "classify_request"
  /\ \E resp \in ClassifierResponses(replies) :
       LET r == TryClassify(resp) IN
       /\ cls_requests' = [cls_requests EXCEPT ![t] = @ + 1]
       /\ IF r.exc = "none" /\ r.kind = "return"
          THEN /\ ReturnClassify(t, r.is_related, r.analysis)
               /\ reply' = [reply EXCEPT ![t] = resp.content]
               /\ cls_ok' = [cls_ok EXCEPT ![t] = TRUE]
               /\ UNCHANGED attempt
          ELSE /\ UNCHANGED <<reply, cls_ok>>
               /\ IF r.exc = "none" \/ ExceptException(r.exc)
                  THEN IF RetryAgain(attempt[t], max_retries)
                       THEN /\ attempt' = [attempt EXCEPT ![t] = @ + 1]
                            /\ IF InRange(attempt[t] + 1, max_retries)
                               THEN UNCHANGED <<pc, is_related, analysis,
                                                returned>>
                               ELSE ReturnClassify(t, FALSE, <<>>)
                       ELSE /\ ReturnClassify(t, FALSE, <<>>)
                            /\ UNCHANGED attempt
                  ELSE /\ pc' = [pc EXCEPT ![t] = "raised"]
                       /\ UNCHANGED <<attempt, is_related, analysis,
                                      returned>>
  /\ UNCHANGED <<cfg, pushed_weibo_ids, weibo_data, entry, text, weibo_id,
                 message, success, hook_requests, acked, path, pre_analysis,
                 pre_pushed, hook_acked, push_calls>>

\* the value of the stock_analysis key for a classifier result
Result(rel, ana) == << [is_stock_related |-> rel, analysis |-> ana] >>

\* a result that is attached only to a post that has none
AttachedIfAbsent(d, rel, ana) ==
  IF d.stock_analysis = <<>>
  THEN [d EXCEPT !.stock_analysis = Result(rel, ana)] ELSE d

\* a result that is returned in a mapping of its own
AttachedToNew(d, rel, ana) ==
  [EmptyPost EXCEPT !.stock_analysis = Result(rel, ana)]

\* weibo_data after weibo_data['stock_analysis'] = {...}
Attached(d, rel, ana) == [d EXCEPT !.stock_analysis = Result(rel, ana)]

\* a push decided by the classification alone
ShouldPushIfRelated(rel, wid) == rel

\* is_related and weibo_id
ShouldPush(rel, wid) == rel /\ Truthy(wid)

\* the result is attached to the post; the push is decided
AttachAnalysis(t) ==
  /\ pc[t] = "attach"
  /\ weibo_data' = [weibo_data EXCEPT ![t] =
       Attached(weibo_data[t], is_related[t], analysis[t])]
  /\ pc' = [pc EXCEPT ![t] =
              IF ShouldPush(is_related[t], weibo_id[t])
              THEN "push_to_weixin" ELSE "done"]
  /\ returned' = [returned EXCEPT ![t] =
              IF ShouldPush(is_related[t], weibo_id[t])
              THEN "none" ELSE "weibo_data"]
  /\ UNCHANGED <<cfg, pushed_weibo_ids, entry, locals, cls_requests,
                 hook_requests, acked, path, pre_analysis, pre_pushed, reply,
                 cls_ok, hook_acked, push_calls>>

\* return of push_to_weixin: to its caller
ReturnPush(t, value) ==
  /\ success' = [success EXCEPT ![t] = value]
  /\ pc' = [pc EXCEPT ![t] =
              IF entry[t] = "push_to_weixin" THEN "done" ELSE "record"]
  /\ returned' = [returned EXCEPT ![t] =
              IF entry[t] = "push_to_weixin" THEN "bool" ELSE "none"]

\* a guard that lets every call through
NoWebhookNever(url) == FALSE

\* not self.webhook_url
NoWebhook(url) == ~Truthy(url)

\* push_to_weixin, from its first line to the webhook request
PushToWeixin(t) ==
  /\ pc[t] = "push_to_weixin"
  /\ push_calls' = [push_calls EXCEPT ![t] = @ + 1]
  /\ IF NoWebhook(webhook_url)
     THEN ReturnPush(t, FALSE) /\ UNCHANGED message
     ELSE LET bt == BeijingTimeStr(Get(weibo_data[t], "created_at", <<>>)) IN
          IF bt.exc = "none"
          THEN /\ message' = [message EXCEPT ![t] =
                                BuildMessage(weibo_data[t], bt.out)]
               /\ pc' = [pc EXCEPT ![t] = "webhook_request"]
               /\ UNCHANGED <<success, returned>>
          ELSE IF ExceptException(bt.exc)
               THEN ReturnPush(t, FALSE) /\ UNCHANGED message
               ELSE /\ pc' = [pc EXCEPT ![t] = "raised"]
                    /\ UNCHANGED <<message, success, returned>>
  /\ UNCHANGED <<cfg, pushed_weibo_ids, weibo_data, entry, text, weibo_id,
                 attempt, is_related, analysis, cls_requests, hook_requests,
                 acked, path, pre_analysis, pre_pushed, reply, cls_ok,
                 hook_acked>>

\* the webhook request, its response and the handling of the response
WebhookRequest(t) ==
  /\ pc[t] = "webhook_request"
  /\ \E resp \in WebhookResponses :
       LET r == PushResult(resp)
           i == weibo_data[t].id
       IN
       /\ (Acknowledged(resp) /\ i \in PostIds) => acked[i] < MaxAcks
       /\ hook_requests' = [hook_requests EXCEPT ![t] = @ + 1]
       /\ acked' = IF Acknowledged(resp) /\ i \in PostIds
                   THEN [acked EXCEPT ![i] = @ + 1] ELSE acked
       /\ hook_acked' = [hook_acked EXCEPT ![t] = Acknowledged(resp)]
       /\ IF r.exc = "none" THEN ReturnPush(t, r.value)
          ELSE IF ExceptException(r.exc) THEN ReturnPush(t, FALSE)
          ELSE /\ pc' = [pc EXCEPT ![t] = "raised"]
               /\ UNCHANGED <<success, returned>>
  /\ UNCHANGED <<cfg, pushed_weibo_ids, weibo_data, entry, text, weibo_id,
                 attempt, is_related, analysis, message, cls_requests, path,
                 pre_analysis, pre_pushed, reply, cls_ok, push_calls>>

\* an identifier recorded before the delivery is known to have succeeded
PushedAfterAlways(pushed, wid, ok) == pushed \cup {wid}

\* a set that is assigned the one identifier instead of growing by it
PushedAfterReplaced(pushed, wid, ok) == IF ok THEN {wid} ELSE pushed

\* the set after the push returned ok for wid
PushedAfter(pushed, wid, ok) == IF ok THEN pushed \cup {wid} ELSE pushed

\* analyze_and_push after push_to_weixin returned, to its last line
RecordPushed(t) ==
  /\ pc[t] = "record"
  /\ pushed_weibo_ids' =
       PushedAfter(pushed_weibo_ids, weibo_id[t], success[t])
  /\ pc' = [pc EXCEPT ![t] = "done"]
  /\ returned' = [returned EXCEPT ![t] = "weibo_data"]
  /\ UNCHANGED <<cfg, weibo_data, entry, locals, cls_requests,
                 hook_requests, acked, path, pre_analysis, pre_pushed, reply,
                 cls_ok, hook_acked, push_calls>>

\* ------------------------------------------------- the methods called alone
\* the caller invokes is_stock_related(txt) itself
CallIsStockRelated(t) ==
  /\ AtRest(t)
  /\ \E txt \in TextValues \ {Absent} :
       ResetFrame(t, "is_stock_related", txt, PyNone)
  /\ path' = [path EXCEPT ![t] = "none"]
  /\ pc' = [pc EXCEPT ![t] = "is_stock_related"]
  /\ returned' = [returned EXCEPT ![t] = "none"]
  /\ UNCHANGED <<cfg, pushed_weibo_ids, weibo_data, acked>>

\* the caller invokes push_to_weixin(content, weibo_data) itself
CallPushToWeixin(t) ==
  /\ AtRest(t)
  /\ ResetFrame(t, "push_to_weixin", <<>>, PyNone)
  /\ path' = [path EXCEPT ![t] = "none"]
  /\ pc' = [pc EXCEPT ![t] = "push_to_weixin"]
  /\ returned' = [returned EXCEPT ![t] = "none"]
  /\ UNCHANGED <<cfg, pushed_weibo_ids, weibo_data, acked>>

\* --------------------------------------------------------- specifications
\* one caller, one analyze_and_push call at a time
Next ==
  \/ FetchPost(MainThread)
  \/ AnalyzeAndPush(MainThread)
  \/ IsStockRelated(MainThread)
  \/ ClassifyRequest(MainThread, ApiReplies)
  \/ AttachAnalysis(MainThread)
  \/ PushToWeixin(MainThread)
  \/ WebhookRequest(MainThread)
  \/ RecordPushed(MainThread)

Spec == Init /\ [][Next]_vars

\* the steps inside a call of the one caller
StepInCall ==
  \/ IsStockRelated(MainThread)
  \/ ClassifyRequest(MainThread, ApiReplies)
  \/ AttachAnalysis(MainThread)
  \/ PushToWeixin(MainThread)
  \/ WebhookRequest(MainThread)
  \/ RecordPushed(MainThread)

\* the caller's thread keeps running: statements execute, and both requests
\* carry a timeout, so a call that can take a step takes one
SpecLive == Spec /\ WF_vars(StepInCall)

\* one caller that also invokes is_stock_related and push_to_weixin itself
NextAPI ==
  \/ Next
  \/ CallIsStockRelated(MainThread)
  \/ CallPushToWeixin(MainThread)

SpecAPI == Init /\ [][NextAPI]_vars

\* is_stock_related called alone, the endpoint answering with any reply of
\* at most MaxReplyLen characters
NextClassifier ==
  \/ CallIsStockRelated(MainThread)
  \/ IsStockRelated(MainThread)
  \/ ClassifyRequest(MainThread, RepliesUpTo(MaxReplyLen))

SpecClassifier == Init /\ [][NextClassifier]_vars

\* push_to_weixin called alone on the posts the crawler supplies
NextNotifier ==
  \/ FetchPost(MainThread)
  \/ CallPushToWeixin(MainThread)
  \/ PushToWeixin(MainThread)
  \/ WebhookRequest(MainThread)

SpecNotifier == Init /\ [][NextNotifier]_vars

\* the posts two concurrent callers are given: a body and an identifier
ConcurrentPosts ==
  { d \in PostInputs :
      /\ d.id \in PostIds /\ d.text = <<"t">>
      /\ d.user_id = Absent /\ d.created_at = Absent }

\* analyze_and_push called from every thread, the calls interleaved at
\* their requests
NextConcurrent ==
  \E t \in Threads :
    \/ FetchPostFrom(t, ConcurrentPosts)
    \/ AnalyzeAndPush(t)
    \/ IsStockRelated(t)
    \/ ClassifyRequest(t, ApiReplies)
    \/ AttachAnalysis(t)
    \/ PushToWeixin(t)
    \/ WebhookRequest(t)
    \/ RecordPushed(t)

SpecConcurrent == Init /\ [][NextConcurrent]_vars

\* the posts given to a caller of all three methods: a body, any identifier
MethodPosts ==
  { d \in PostInputs : d.text = <<"t">> /\ d.created_at = Absent }

\* one caller invoking the three public methods in any order
NextMethods ==
  \/ FetchPostFrom(MainThread, MethodPosts)
  \/ AnalyzeAndPush(MainThread)
  \/ CallIsStockRelated(MainThread)
  \/ CallPushToWeixin(MainThread)
  \/ IsStockRelated(MainThread)
  \/ ClassifyRequest(MainThread, ApiReplies)
  \/ AttachAnalysis(MainThread)
  \/ PushToWeixin(MainThread)
  \/ WebhookRequest(MainThread)
  \/ RecordPushed(MainThread)

SpecMethods == Init /\ [][NextMethods]_vars

\* ----------------------------------------------------------------- claims
\* thread t is in, or has returned from, an analyze_and_push call
InAnalyze(t) == entry[t] = "analyze_and_push"

\* the last call of thread t was analyze_and_push and it has returned
Analyzed(t) == InAnalyze(t) /\ pc[t] = "done"

\* is_stock_related has returned to its caller in thread t
ClassifierReturned(t) ==
  \/ entry[t] = "is_stock_related" /\ pc[t] = "done"
  \/ /\ InAnalyze(t) /\ path[t] = "classify"
     /\ pc[t] \in {"attach", "push_to_weixin", "webhook_request", "record",
                   "done"}

\* push_to_weixin has returned to its caller in thread t
PushReturned(t) ==
  \/ entry[t] = "push_to_weixin" /\ pc[t] = "done"
  \/ InAnalyze(t) /\ pc[t] = "record"
  \/ Analyzed(t) /\ path[t] = "classify" /\ is_related[t]
     /\ Truthy(weibo_id[t])

\* C1: an identifier in pushed_weibo_ids has had a delivery acknowledged by
\* the webhook (so none is added before the acknowledgment), and between
\* two analyze_and_push calls every post identifier with an acknowledged
\* delivery is in pushed_weibo_ids.
C1_PushedIffAcknowledged ==
  /\ \A i \in pushed_weibo_ids : i \in PostIds /\ acked[i] >= 1
  /\ (\A t \in Threads : AtRest(t)) =>
       \A i \in PostIds : acked[i] >= 1 => i \in pushed_weibo_ids

\* a delivery was acknowledged and the call that made it has returned
C1_Witness ==
  /\ Analyzed(MainThread) /\ hook_acked[MainThread]
  /\ weibo_id[MainThread] \in pushed_weibo_ids
  /\ acked[weibo_id[MainThread]] = 1

\* C2: with one call at a time, a webhook request is only sent for a post
\* whose identifier has no acknowledged delivery yet, and no identifier
\* ever has more than one acknowledged delivery.
C2_AtMostOneDelivery ==
  [][ /\ \A t \in Threads :
           (hook_requests'[t] = hook_requests[t] + 1
            /\ weibo_data[t].id \in PostIds)
           => acked[weibo_data[t].id] = 0
      /\ \A i \in PostIds : acked'[i] <= 1 ]_vars

\* a later call for a delivered identifier returned without a request
C2_Witness ==
  /\ Analyzed(MainThread) /\ path[MainThread] = "duplicate"
  /\ acked[weibo_id[MainThread]] = 1
  /\ hook_requests[MainThread] = 0

\* the identifier of the post of thread t was in the set when the call began
WasPushed(t) == weibo_data[t].id \in pre_pushed[t]

\* C3: a call for a post whose identifier is already in pushed_weibo_ids
\* returns at once without a classification or a webhook request; the
\* sentinel is written only where stock_analysis was absent, it is written
\* whenever the duplicate branch finds it absent, and a stock_analysis that
\* was there is left as it was.
C3_DuplicateShortCircuit ==
  \A t \in Threads :
    (InAnalyze(t) /\ WasPushed(t)) =>
      /\ pc[t] = "done"
      /\ cls_requests[t] = 0 /\ hook_requests[t] = 0
      /\ pre_analysis[t] # <<>> =>
           weibo_data[t].stock_analysis = pre_analysis[t]
      /\ weibo_data[t].stock_analysis # pre_analysis[t] =>
           (pre_analysis[t] = <<>>
            /\ weibo_data[t].stock_analysis = <<Sentinel>>)
      /\ (path[t] = "duplicate" /\ pre_analysis[t] = <<>>) =>
           weibo_data[t].stock_analysis = <<Sentinel>>

\* a post with a result was passed again after its delivery and kept it
C3_Witness ==
  /\ Analyzed(MainThread) /\ WasPushed(MainThread)
  /\ path[MainThread] = "duplicate"
  /\ pre_analysis[MainThread] # <<>>
  /\ weibo_data[MainThread].stock_analysis = pre_analysis[MainThread]
  /\ pre_analysis[MainThread] # <<Sentinel>>

\* C4: with the feature disabled, or with an empty or missing text, the
\* call returns the post with stock_analysis as it was, makes no request
\* and leaves pushed_weibo_ids as it was.
C4_DisabledOrEmptyUnchanged ==
  \A t \in Threads :
    (InAnalyze(t)
     /\ (~enabled \/ ~Truthy(Get(weibo_data[t], "text", <<>>)))) =>
      /\ pc[t] = "done" /\ returned[t] = "weibo_data"
      /\ path[t] \in {"disabled", "empty_text"}
      /\ weibo_data[t].stock_analysis = pre_analysis[t]
      /\ cls_requests[t] = 0 /\ hook_requests[t] = 0
      /\ pushed_weibo_ids = pre_pushed[t]

\* a post without text whose identifier was pushed before, returned as is
C4_Witness ==
  /\ Analyzed(MainThread) /\ WasPushed(MainThread)
  /\ ~Truthy(Get(weibo_data[MainThread], "text", <<>>))
  /\ weibo_data[MainThread].stock_analysis = <<>>

\* the loop of thread t is between two attempts: every request so far
\* failed and was followed by another attempt
Retrying(t) ==
  pc[t] = "classify_request" =>
    /\ ~cls_ok[t]
    /\ cls_requests[t] = attempt[t]
    /\ cls_requests[t] < max_retries

\* the classifier of thread t returned (False, '')
ReturnedNotRelated(t) == ~is_related[t] /\ analysis[t] = <<>>

\* C5 as stated: for any max_retries, an enabled classifier with a key
\* makes a first request, retries after each failure, stops at the first
\* parsed reply, makes at most max_retries requests, and after max_retries
\* failures returns (False, '').
C5_RetryAnyMaxRetries ==
  \A t \in Threads :
    /\ Retrying(t)
    /\ (ClassifierReturned(t) /\ enabled /\ Truthy(api_key)) =>
         /\ cls_requests[t] >= 1
         /\ cls_requests[t] <= max_retries
         /\ ~cls_ok[t] =>
              (cls_requests[t] = max_retries /\ ReturnedNotRelated(t))

\* C5 amended: the above for max_retries >= 1; for max_retries <= 0 no
\* request is made and the result is (False, '').
C5_RetryBounded ==
  \A t \in Threads :
    /\ Retrying(t)
    /\ (ClassifierReturned(t) /\ enabled /\ Truthy(api_key)) =>
         IF max_retries >= 1
         THEN /\ cls_requests[t] >= 1
              /\ cls_requests[t] <= max_retries
              /\ ~cls_ok[t] =>
                   (cls_requests[t] = max_retries /\ ReturnedNotRelated(t))
         ELSE cls_requests[t] = 0 /\ ~cls_ok[t] /\ ReturnedNotRelated(t)

\* every one of two configured attempts failed
C5_Witness ==
  /\ ClassifierReturned(MainThread) /\ enabled /\ Truthy(api_key)
  /\ max_retries = 2 /\ cls_requests[MainThread] = 2
  /\ ~cls_ok[MainThread] /\ ReturnedNotRelated(MainThread)

\* s has only whitespace at positions i..j
Blank(s, i, j) == \A k \in i..j : s[k] \in Whitespace

\* a is s without its leading and trailing whitespace
IsStripped(a, s) ==
  \E i \in 1..(Len(s) + 1) : \E j \in 0..Len(s) :
    /\ a = SubSeq(s, i, j)
    /\ Blank(s, 1, i - 1) /\ Blank(s, j + 1, Len(s))
    /\ a # <<>> => (a[1] \notin Whitespace /\ a[Len(a)] \notin Whitespace)

\* the marker occurs somewhere in a
HasMarker(a) ==
  \E i \in 1..Len(a) :
    i + 2 <= Len(a) /\ SubSeq(a, i, i + 2) = NotRelated

\* C6: for a reply parsed from an HTTP 200 response, analysis is the reply
\* without surrounding whitespace and is_related is false exactly when the
\* marker occurs in it.
C6_SubstringRule ==
  \A t \in Threads :
    (ClassifierReturned(t) /\ cls_ok[t]) =>
      /\ IsStripped(analysis[t], reply[t])
      /\ is_related[t] <=> ~HasMarker(analysis[t])

\* a reply that holds the marker next to another character
C6_Witness ==
  /\ ClassifierReturned(MainThread) /\ cls_ok[MainThread]
  /\ ~is_related[MainThread]
  /\ Len(analysis[MainThread]) > Len(NotRelated)

\* C7: disabled, or without an API key, is_stock_related makes no request
\* and returns (False, '').
C7_ClassifierOffNoRequest ==
  \A t \in Threads :
    (~enabled \/ ~Truthy(api_key)) =>
      /\ pc[t] # "classify_request"
      /\ cls_requests[t] = 0
      /\ ClassifierReturned(t) => ReturnedNotRelated(t)

\* is_stock_related returned while disabled, with a key and retries set
C7_Witness ==
  /\ ~enabled /\ Truthy(api_key) /\ max_retries >= 1
  /\ entry[MainThread] = "is_stock_related" /\ pc[MainThread] = "done"
  /\ Truthy(text[MainThread])

\* C8: push_to_weixin returns True exactly when its request was
\* acknowledged (HTTP 200 with errcode 0), and sends at most one request.
C8_PushResult ==
  \A t \in Threads :
    /\ hook_requests[t] <= 1
    /\ PushReturned(t) => (success[t] <=> hook_acked[t])
    /\ hook_acked[t] => hook_requests[t] = 1

\* push_to_weixin, called alone, returned True
C8_Witness ==
  /\ entry[MainThread] = "push_to_weixin" /\ pc[MainThread] = "done"
  /\ success[MainThread] /\ hook_requests[MainThread] = 1

\* C9: without a webhook URL no request is sent, push_to_weixin returns
\* False, pushed_weibo_ids stays empty and no call takes the duplicate
\* branch.
C9_NoWebhookNoDelivery ==
  ~Truthy(webhook_url) =>
    /\ pushed_weibo_ids = {}
    /\ \A t \in Threads :
         /\ hook_requests[t] = 0 /\ pc[t] # "webhook_request"
         /\ ~success[t]
         /\ path[t] # "duplicate"

\* a related post with an identifier went through push_to_weixin
C9_Witness ==
  /\ ~Truthy(webhook_url)
  /\ Analyzed(MainThread) /\ path[MainThread] = "classify"
  /\ is_related[MainThread] /\ Truthy(weibo_id[MainThread])

\* C10: no exception leaves analyze_and_push, and a call that has returned
\* has returned the post.
C10_NoFaultEscapes ==
  \A t \in Threads :
    /\ pc[t] # "raised"
    /\ Analyzed(t) => returned[t] = "weibo_data"

\* a call returned after a failed classification attempt and a failed push
C10_Witness ==
  /\ Analyzed(MainThread) /\ path[MainThread] = "classify"
  /\ cls_requests[MainThread] >= 2 /\ cls_ok[MainThread]
  /\ hook_requests[MainThread] = 1 /\ ~success[MainThread]

\* stock_analysis of the post of thread t
StockAnalysis(t) == weibo_data[t].stock_analysis

\* C11 as stated: over the calls made on one post record, a stock_analysis
\* that has been set is not set again.
C11_SetOnce ==
  [][ \A t \in Threads :
        (StockAnalysis(t) # <<>> /\ entry'[t] # "none")
        => weibo_data'[t].stock_analysis = StockAnalysis(t) ]_vars

\* C11 amended: every call that reaches the classifier sets stock_analysis
\* once, to the result of that call, whatever the post carried before; a
\* call for a delivered post makes no classification request and attaches
\* the sentinel only where stock_analysis was absent; a call that returns
\* on the disabled or the empty-text guard leaves it as it was.
C11_SetOncePerCall ==
  \A t \in Threads :
    InAnalyze(t) =>
      CASE path[t] = "classify" ->
             IF pc[t] \in {"is_stock_related", "classify_request", "attach"}
             THEN StockAnalysis(t) = pre_analysis[t]
             ELSE StockAnalysis(t) = Result(is_related[t], analysis[t])
        [] path[t] = "duplicate" ->
             /\ cls_requests[t] = 0
             /\ StockAnalysis(t) =
                  IF pre_analysis[t] = <<>> THEN <<Sentinel>>
                  ELSE pre_analysis[t]
        [] OTHER -> StockAnalysis(t) = pre_analysis[t]

\* a post that carried a result was classified again and got another one
C11_Witness ==
  /\ Analyzed(MainThread) /\ path[MainThread] = "classify"
  /\ pre_analysis[MainThread] # <<>>
  /\ StockAnalysis(MainThread) # pre_analysis[MainThread]

\* thread t is about to send the webhook request for a post created at c
Sending(t, c) ==
  pc[t] = "webhook_request" /\ Get(weibo_data[t], "created_at", <<>>) = c

\* C12: for 'Thu Dec 18 08:33:17 +0800 2025' the weibo branch is selected
\* and the message shows '2025-12-18 08:33:17'; the bare format goes to the
\* standard branch and the ISO format to the ISO branch.
C12_WeiboTimeRendered ==
  \A t \in Threads :
    /\ Sending(t, WeiboTime) =>
         /\ TimeBranch(WeiboTime) = "weibo"
         /\ StartsWith(message[t], TimeLabel \o WeiboTimeBeijing \o <<"\n">>)
    /\ Sending(t, StandardTime) => TimeBranch(StandardTime) = "standard"
    /\ Sending(t, IsoTime) => TimeBranch(IsoTime) = "iso"

\* the keys of a post other than stock_analysis
InputKeys == {"id", "text", "user_id", "created_at"}

\* C13: no step of a call changes id, text, user_id or created_at of the
\* post (only a new post from the crawler has other values), and a call
\* that has returned has returned the mapping it was given.
C13_OnlyStockAnalysisChanges ==
  [][ \A t \in Threads :
        /\ entry'[t] # "none" =>
             \A k \in InputKeys : weibo_data'[t][k] = weibo_data[t][k]
        /\ (entry'[t] = "analyze_and_push" /\ pc'[t] = "done") =>
             returned'[t] = "weibo_data" ]_vars

\* a post with every field went through classification and a push
C13_Witness ==
  /\ Analyzed(MainThread) /\ path[MainThread] = "classify"
  /\ hook_requests[MainThread] = 1
  /\ \A k \in InputKeys : Truthy(weibo_data[MainThread][k])
  /\ StockAnalysis(MainThread) # <<>>

\* the post of thread t has a non-empty identifier
HasId(t) == Truthy(Get(weibo_data[t], "id", PyNone))

\* C14: in a pass that reaches the classifier, push_to_weixin is invoked
\* (once) exactly when the result is related and the post has a non-empty
\* identifier, and the result is on the post before it is invoked; a post
\* without identifier causes no webhook request and pushed_weibo_ids never
\* holds an empty or missing identifier.
C14_PushIffRelatedWithId ==
  /\ \A i \in pushed_weibo_ids : Truthy(i)
  /\ \A t \in Threads :
       (InAnalyze(t) /\ path[t] = "classify") =>
         /\ push_calls[t] <= 1
         /\ Analyzed(t) =>
              (push_calls[t] = 1 <=> (is_related[t] /\ HasId(t)))
         /\ (pc[t] = "push_to_weixin" \/ push_calls[t] = 1) =>
              StockAnalysis(t) = Result(is_related[t], analysis[t])
         /\ ~HasId(t) => (push_calls[t] = 0 /\ hook_requests[t] = 0)

\* a related post without identifier was returned without a push
C14_Witness ==
  /\ Analyzed(MainThread) /\ path[MainThread] = "classify"
  /\ is_related[MainThread] /\ ~HasId(MainThread)
  /\ push_calls[MainThread] = 0
  /\ Truthy(webhook_url)

\* thread t sends a webhook request in this step
SendsRequest(t) == hook_requests'[t] = hook_requests[t] + 1

\* C15: with interleaved calls the membership test and the add are not one
\* step: a webhook request for an identifier is sent by every call that
\* found the identifier absent when it began, also after another call has
\* had its delivery acknowledged, so two acknowledged deliveries of one
\* identifier are reachable (the witness); a call that found the identifier
\* in the set sends none.
C15_CheckThenAddNotAtomic ==
  [][ \A t \in Threads :
        (SendsRequest(t) /\ weibo_data[t].id \in PostIds) =>
          /\ weibo_data[t].id \notin pre_pushed[t]
          /\ acked'[weibo_data[t].id] <= Cardinality(Threads) ]_vars

\* both threads had a delivery of the same identifier acknowledged
C15_Witness ==
  \E i \in PostIds :
    /\ acked[i] = 2
    /\ \A t \in Threads :
         /\ Analyzed(t) /\ weibo_data[t].id = i /\ hook_acked[t]
         /\ i \notin pre_pushed[t]

\* C16: whichever of the three methods runs, no step removes an identifier
\* from pushed_weibo_ids, and the only identifier a step adds is the one
\* of the post of the analyze_and_push call that takes the step.
C16_PushedGrowsMonotonically ==
  [][ /\ pushed_weibo_ids \subseteq pushed_weibo_ids'
      /\ \A i \in pushed_weibo_ids' \ pushed_weibo_ids :
           \E t \in Threads :
             /\ InAnalyze(t) /\ pc[t] = "record" /\ pc'[t] = "done"
             /\ weibo_data[t].id = i ]_vars

\* the set has grown twice, and the methods were also called alone since
C16_Witness ==
  /\ pushed_weibo_ids = PostIds
  /\ entry[MainThread] = "push_to_weixin" /\ pc[MainThread] = "done"
  /\ success[MainThread]

\* the time shown for the post of thread t: rendered, or raw when unparsed
ShownTime(t) == BeijingTimeStr(Get(weibo_data[t], "created_at", <<>>)).out

\* the time line of the message of thread t, empty without a timestamp
TimeSegment(t) ==
  IF Truthy(Get(weibo_data[t], "created_at", <<>>))
  THEN TimeLabel \o ShownTime(t) ELSE <<>>

\* the post of thread t has both user_id and id
HasLink(t) ==
  Truthy(Get(weibo_data[t], "user_id", <<>>))
  /\ Truthy(Get(weibo_data[t], "id", <<>>))

\* the link line of the message of thread t
LinkSegment(t) ==
  LinkLabel \o UrlPrefix \o weibo_data[t].user_id \o <<"/">>
  \o weibo_data[t].id

\* the end of a line followed by an empty line
BlankLine == <<"\n", "\n">>

\* C17 as stated: the message is the time line, the text and the link line
\* in that order, a blank line between the time line and the text and a
\* blank line between the text and the link line.
C17_BlankLineSeparated ==
  \A t \in Threads :
    pc[t] = "webhook_request" =>
      message[t] =
        (IF TimeSegment(t) # <<>> THEN TimeSegment(t) \o BlankLine ELSE <<>>)
        \o Get(weibo_data[t], "text", <<>>)
        \o (IF HasLink(t) THEN BlankLine \o LinkSegment(t) ELSE <<>>)

\* C17 amended: the message is the time line (only with a timestamp), one
\* line break, the text, and then (only with user_id and id) a blank line
\* and the link line; the line break is there without a time line too.
C17_MessageLayout ==
  \A t \in Threads :
    pc[t] = "webhook_request" =>
      message[t] =
        TimeSegment(t) \o <<"\n">>
        \o Get(weibo_data[t], "text", <<>>)
        \o (IF HasLink(t) THEN BlankLine \o LinkSegment(t) ELSE <<>>)

\* a message with all three segments is about to be sent
C17_Witness ==
  /\ Sending(MainThread, StandardTime)
  /\ HasLink(MainThread)
  /\ weibo_data[MainThread].text = <<"t">>
  /\ Len(message[MainThread]) > Len(TimeSegment(MainThread)) + 4

\* thread t is in a later call for its post: an earlier call attached a
\* result, the classifier is enabled and the text is not empty
LaterCall(t) ==
  /\ InAnalyze(t)
  /\ pre_analysis[t] # <<>>
  /\ enabled /\ Truthy(Get(weibo_data[t], "text", <<>>))

\* the earlier call of thread t found the post related and did not deliver
\* it: the identifier is there and is not in the set
AfterFailedPush(t) ==
  /\ LaterCall(t)
  /\ pre_analysis[t][1].is_stock_related
  /\ HasId(t) /\ weibo_data[t].id \notin pre_pushed[t]

\* the earlier call of thread t found the post not related
AfterNotRelated(t) ==
  LaterCall(t) /\ ~pre_analysis[t][1].is_stock_related

\* a call whose push_to_weixin returned False leaves the set as it was
FailedPushLeavesSet(t) ==
  (Analyzed(t) /\ push_calls[t] = 1 /\ ~success[t])
    => pushed_weibo_ids = pre_pushed[t]

\* C18 as stated: a failed push leaves pushed_weibo_ids unchanged; the next
\* call for the identifier classifies again and, if related, sends a new
\* webhook request; a not related post is classified again on every call.
C18_FailedPushRetriedWithRequest ==
  \A t \in Threads :
    /\ FailedPushLeavesSet(t)
    /\ AfterFailedPush(t) =>
         /\ path[t] = "classify"
         /\ (Analyzed(t) /\ is_related[t]) => hook_requests[t] = 1
    /\ AfterNotRelated(t) => path[t] = "classify"

\* C18 amended: a failed push leaves pushed_weibo_ids unchanged; the next
\* call for the identifier calls is_stock_related again and, if related,
\* calls push_to_weixin again, which sends a new webhook request when a
\* webhook URL is configured and none otherwise; a not related post is
\* classified again on every later call while its identifier is not in
\* pushed_weibo_ids.
C18_FailedPushRetried ==
  \A t \in Threads :
    /\ FailedPushLeavesSet(t)
    /\ AfterFailedPush(t) =>
         /\ path[t] = "classify"
         /\ (Analyzed(t) /\ is_related[t]) =>
              /\ push_calls[t] = 1
              /\ hook_requests[t] = IF Truthy(webhook_url) THEN 1 ELSE 0
    /\ ( AfterNotRelated(t)
         /\ ~InPushed(Get(weibo_data[t], "id", PyNone), pre_pushed[t]) )
         => path[t] = "classify"

\* a call after a failed push found the post related again, sent a second
\* request and delivered it
C18_Witness ==
  /\ AfterFailedPush(MainThread) /\ Analyzed(MainThread)
  /\ is_related[MainThread] /\ hook_requests[MainThread] = 1
  /\ success[MainThread]
  /\ weibo_data[MainThread].id \in pushed_weibo_ids

\* the largest number of classification requests range(max_retries) allows
RequestLimit == IF max_retries > 0 THEN max_retries ELSE 0

\* thread t is inside a call of analyze_and_push
Running(t) == InAnalyze(t) /\ pc[t] \notin {"done", "raised"}

\* C19: every analyze_and_push call ends, whatever the outcomes of its
\* requests, after at most max_retries classification requests and at most
\* one webhook request, and no classification request is sent once the
\* call has sent its webhook request.
C19_CallTerminates ==
  /\ [](\A t \in Threads :
          InAnalyze(t) =>
            /\ cls_requests[t] <= RequestLimit
            /\ hook_requests[t] <= 1)
  /\ [][\A t \in Threads :
          (InAnalyze(t) /\ cls_requests'[t] = cls_requests[t] + 1)
            => (hook_requests[t] = 0 /\ hook_requests'[t] = 0)]_vars
  /\ (Running(MainThread) ~> ~Running(MainThread))

\* a call that used every classification request it had and then sent its
\* one webhook request has returned
C19_Witness ==
  /\ Analyzed(MainThread) /\ returned[MainThread] = "weibo_data"
  /\ max_retries = MaxRetries
  /\ cls_requests[MainThread] = max_retries
  /\ hook_requests[MainThread] = 1

====
